---- MODULE Spec2Model ----
(***************************************************************************)
(* Session Budget Manager of the interview platform                        *)
(* (backend/src/services/user.service.js).                                 *)
(*                                                                         *)
(* One user document in the Firestore `users` collection and the three     *)
(* operations that mutate it: startInterviewSession (a Firestore           *)
(* transaction), updateHeartbeat and endInterviewSession (each a plain     *)
(* read followed, after an await, by a plain update).  Several callers     *)
(* (socket connections or HTTP requests of the same user) run the          *)
(* operations concurrently; every Firestore request is one atomic step.    *)
(*                                                                         *)
(* Time is the server clock in milliseconds (Date.now()).  The epoch is    *)
(* moved close to 0 so that the values fit TLC's 32-bit integers; only      *)
(* differences of timestamps and the UTC day number are ever used.         *)
(***************************************************************************)
EXTENDS Integers, Sequences, FiniteSets, TLC

\* ------------------------------------------------------------------------
\* Bounds of the model
\* ------------------------------------------------------------------------
\* Number of times the clock may advance in one behaviour.
MaxTicks == 3
\* Number of sessions that may be started in one behaviour.
MaxSessions == 3

\* The concurrent callers of the service for the one user (two browser tabs).
Procs == {"tab1", "tab2"}

\* Amounts (ms) by which the clock advances between two steps: half a
\* second (durations that are not whole seconds) and thirty minutes (the
\* daily limit, and twice that the hard session ceiling).
TickSteps == {500, 1800000}

\* Amounts (ms) between two socket messages: half the session:start
\* cooldown, and thirty minutes.
ConnTickSteps == {2500, 1800000}

\* Number of turns (calls of handleUserTurnComplete) in one behaviour.
MaxTurns == 1
\* Number of chunks one LLM response stream may yield.
MaxChunks == 1
\* Longest transcript buffer (characters) the STT engine is allowed to fill.
MaxBufferLen == 3
\* Number of session:violation messages in one behaviour.
MaxViolations == 2

\* Number of calls of STTService.startStream in one behaviour.
MaxStreams == 3

\* How often the clock of the STT service advances.
MaxSttTicks == 7

\* Amounts (ms) by which time advances between two events of the STT
\* service: the silence timeout, and the rest of the speech ceiling plus
\* one millisecond.
SttTickSteps == {10000, 50001}

\* Transcripts in a Deepgram Transcript event: a word, and whitespace.
SttTexts == { <<"a">>, <<" ">> }

\* The calls of handleUserTurnComplete that may be running at once.
TurnSlots == {1, 2}

\* Text is a sequence of characters over a three-letter alphabet: a word
\* character, a sentence-ending punctuation mark and a whitespace.
Chars == {"a", ".", " "}

\* A text of n word characters.
Word(n) == [k \in 1..n |-> "a"]

\* Final or interim transcripts the STT engine may deliver.
Fragments == { <<"a">>, <<"a", ".">> }

\* Transcripts a client may send with audio:end.
ClientTranscripts == { <<>>, <<"a">> }

\* The same with long texts: a transcript one character longer than
\* MAX_TRANSCRIPT_LENGTH, and client texts of MAX_TRANSCRIPT_LENGTH
\* characters and of one more.
LongFragments == Fragments \cup { Word(1001) }

LongTranscripts == ClientTranscripts \cup { Word(1000), Word(1001) }

\* Chunks an LLM response stream may yield: a word, and three sentences
\* in one chunk.
Chunks == { <<"a", " ">>, <<"a", ".", " ", "a", ".", " ", "a", ".">> }

\* Sizes (bytes) of the audio chunks a client may send.
AudioSizes == {100000, 100001}

\* What STTService.processAudio may answer for a stream that exists.
SttResults == {"CONTINUE", "SILENCE_TIMEOUT", "MAX_DURATION_EXCEEDED"}

\* Amounts (ms) by which time advances in the interview handler: half the
\* long wait of the transcript timer.
OrchTickSteps == {1250}

\* ------------------------------------------------------------------------
\* Program constants
\* ------------------------------------------------------------------------
\* JavaScript null (also an absent document field).
NULL == -1
\* The absent session id (activeSessionId: null).
NoSession == <<>>
\* dailyTimeLimitSec of a new user, and the `|| 1800` fallback of Start.
DEFAULT_LIMIT_SEC == 1800
\* MAX_DURATION_MS of updateHeartbeat: 60 * 60 * 1000.
MAX_DURATION_MS == 3600000
\* Milliseconds per second, the divisor of Math.ceil / Math.floor.
MS_PER_SEC == 1000
\* Milliseconds per UTC day: toISOString().split('T')[0] changes every DAY_MS.
DAY_MS == 86400000
\* Clock at construction: 23:29:59.000 UTC of day 1.
StartClock == 2 * DAY_MS - 1801000
\* AI_CONFIG.STT.SILENCE_TIMEOUT_MS and MAX_CONTINUOUS_SPEECH_MS.
SILENCE_TIMEOUT_MS == 10000
MAX_CONTINUOUS_SPEECH_MS == 60000
\* RATE_LIMIT_MS of the session:start handler.
RATE_LIMIT_MS == 5000
\* MAX_TRANSCRIPT_LENGTH and MAX_AUDIO_CHUNK_SIZE of the interview handler.
MAX_TRANSCRIPT_LENGTH == 1000
MAX_AUDIO_CHUNK_SIZE == 100000
\* The two waits of the transcript timer (ms).
WAIT_SHORT_MS == 1000
WAIT_LONG_MS == 2500
\* AI_CONFIG.TTS.MAX_CHARACTERS.
TTS_MAX_CHARACTERS == 500
\* conversationHistory is cut to its last 20 entries.
MAX_HISTORY == 20
\* The text the LLM service yields when its request fails:
\* "I'm having trouble thinking right now."
LLM_FALLBACK == <<"a", ".">>
\* GREETING_TEXT of interview:start (it ends with a question mark).
GREETING_TEXT == <<"a", ".">>

VARIABLES
    now,            \* Date.now() of the server
    ticks,          \* how often the clock has advanced
    user,           \* the user document
    pc,             \* per caller: the await it is suspended at
    loc,            \* per caller: the locals of the running operation
    event,          \* how the operation that returned last ended
    sessNo,         \* history: number of sessions started
    charged,        \* history: the sessions whose time has been charged
    chargedTwice,   \* history: some session's time was charged a second time
    closedSum,      \* history: seconds charged by End today
    supersededSum,  \* history: elapsed seconds of sessions superseded today
    lastStartRequest, \* per connection: the session handler's rate-limit Map
    lastStartCall,  \* history, per connection: when it last called Start
    wire,           \* the socket message handled last and what was sent back
    state,          \* interview handler: IDLE, LISTENING, THINKING, SPEAKING
    conversationHistory, \* interview handler: the roles of the entries
    violationCount, \* interview handler: session:violation messages so far
    stream,         \* whether STTService holds a stream for the user
    transcriptBuffer, \* the final transcripts not yet handed to a turn
    transcriptTimer, \* the pending setTimeout, or NoTimer
    greeting,       \* the greeting's detached sendAudioChunk call
    turns,          \* the calls of handleUserTurnComplete
    turnNo,         \* number of calls of handleUserTurnComplete so far
    sinceFragment,  \* history: while the timer is pending, the ms since
                    \* the STT engine's last transcript before it is due
    accepted,       \* history: the final transcripts the handler has
                    \* appended to the buffer since the buffer was last emptied
    act,            \* what the interview handler's last step received and did
    sttNow,         \* STT service: Date.now()
    sttTicks,       \* STT service: how often its clock has advanced
    sttStream,      \* STT service: this.streams.get(userId), or NoStream
    sttOut,         \* STT service: what its last step returned and called
    speechRun,      \* history: start and last voice activity of the run of
                    \* transcripts with no pause longer than the silence
                    \* timeout
    online,         \* per connection: the socket has not disconnected
    dg,             \* the Deepgram connections startStream has created, in
                    \* order: the socket that asked for it and its status
    streams         \* STTService.streams.get(uid): the number of the
                    \* connection in the entry, 0 when there is no entry

\* The state of the socket session handlers of the connections.
connVars == <<lastStartRequest, lastStartCall, wire>>

\* The state of one connection's interview handler.
orchVars == <<state, conversationHistory, violationCount, stream,
              transcriptBuffer, transcriptTimer, greeting, turns, turnNo,
              sinceFragment, accepted, act>>

\* The Budget Manager's state.
budgetVars == <<now, ticks, user, pc, loc, event, sessNo,
                charged, chargedTwice, closedSum, supersededSum>>

\* The state of the STT service for the user.
sttVars == <<sttNow, sttTicks, sttStream, sttOut, speechRun>>

\* The sockets of the user and the streams the STT service keeps for them.
lifeVars == <<online, dg, streams>>

\* What the Budget Manager's own steps leave alone.
ext == <<connVars, orchVars, sttVars, lifeVars>>

\* What the interview handler's steps leave alone.
rest == <<budgetVars, connVars, sttVars, lifeVars>>

vars == <<now, ticks, user, pc, loc, event, sessNo,
          charged, chargedTwice, closedSum, supersededSum, ext>>

hist == <<sessNo, charged, chargedTwice, closedSum, supersededSum>>

\* ------------------------------------------------------------------------
\* Pure helpers
\* ------------------------------------------------------------------------
\* new Date().toISOString().split('T')[0]: the UTC calendar day of t.
Today(t) == t \div DAY_MS

\* JavaScript falsiness of a number-or-null field (!x).
Falsy(x) == x = NULL \/ x = 0

\* x || d for a number-or-null field.
OrElse(x, d) == IF Falsy(x) THEN d ELSE x

\* Math.min(a, b)
Min(a, b) == IF a <= b THEN a ELSE b

\* Mutant of CeilSec: the duration rounded down instead of up.
CeilSec_RoundsDown(ms) == ms \div MS_PER_SEC

\* Math.ceil(ms / 1000)
CeilSec(ms) == (ms + MS_PER_SEC - 1) \div MS_PER_SEC

\* Math.floor(ms / 1000)
FloorSec(ms) == ms \div MS_PER_SEC

\* `sess_${now}`
MakeSessionId(t) == <<"sess", t>>

\* The document written by createUser.
NewUser ==
    [ dailyTimeLimitSec       |-> DEFAULT_LIMIT_SEC,
      dailyTimeUsedSec        |-> 0,
      lastResetDate           |-> Today(StartClock),
      activeSessionId         |-> NoSession,
      currentSessionStartTime |-> NULL,
      lastHeartbeatAt         |-> NULL ]

NoLocals == [ now |-> NULL, start |-> NULL, sess |-> 0 ]

\* A socket message of connection c handled by the server, with the
\* acknowledgement or event the server sent back while handling it
\* ("none": nothing was sent to the client).
Message(c, recv, sent) == [ conn |-> c, recv |-> recv, sent |-> sent ]

NoMessage == Message("none", "none", "none")

\* No setTimeout is pending.
NoTimer == [ left |-> NULL, wait |-> NULL ]

\* An event emitted to the client (socket.emit).
Event(ev, st, text, audio) ==
    [ ev |-> ev, state |-> st, text |-> text, audio |-> audio ]

Status(st) == Event("interview:status", st, <<>>, <<>>)

\* What a step of the interview handler received and did towards the
\* outside: the events it emitted in order, the size of the audio chunk it
\* received (NULL: none), whether it called STTService.processAudio and
\* what that answered, the kind of transcript the STT engine delivered
\* ("interim", "final"), the transcript of the audio:end message it read
\* (a sequence of one text; empty: none read), and the roles of the
\* message list of the LLM request it made (empty: none made).
NoAct ==
    [ emits |-> <<>>, audio |-> NULL, stt |-> FALSE, signal |-> "none",
      fragment |-> "none", transcript |-> <<>>, request |-> <<>> ]

Act(emits, audio, stt) ==
    [NoAct EXCEPT !.emits = emits, !.audio = audio, !.stt = stt]

Emits(emits) == Act(emits, NULL, FALSE)

\* this.streams has no entry for the user.
NoStream ==
    [ lastVoiceTime |-> NULL, continuousSpeechStart |-> NULL,
      isSpeaking |-> FALSE, open |-> FALSE ]

\* What a step of the STT service did: the value processAudio returned
\* and whether the onTranscript callback was called.
SttOut(result, called) == [ result |-> result, called |-> called ]

NoOut == SttOut("none", FALSE)

\* No transcript has arrived on the stream.
NoRun == [ start |-> NULL, last |-> NULL ]

\* The locals of one call of handleUserTurnComplete: the await it is at,
\* sentenceBuffer, fullAiResponse, isFirstChunk, the text handed to TTS,
\* and history: the chunks yielded, the audio:chunk events emitted (kept
\* while every TTS call of the turn has succeeded), whether the LLM
\* request failed, whether a TTS call failed, whether the call has
\* emitted an error event.
NoTurn ==
    [ pc |-> "free", sentenceBuffer |-> <<>>, fullAiResponse |-> <<>>,
      isFirstChunk |-> TRUE, tts |-> <<>>, chunks |-> 0, spoken |-> <<>>,
      llmFailed |-> FALSE, ttsFailed |-> FALSE, errorSent |-> FALSE ]

\* The turn's record after it has emitted the events.
Noted(t, emits) ==
    [t EXCEPT !.errorSent = @ \/ \E k \in 1..Len(emits) : emits[k].ev = "error"]

Init ==
    /\ now = StartClock
    /\ ticks = 0
    /\ user = NewUser
    /\ pc = [p \in Procs |-> "idle"]
    /\ loc = [p \in Procs |-> NoLocals]
    /\ event = "none"
    /\ sessNo = 0
    /\ charged = {}
    /\ chargedTwice = FALSE
    /\ closedSum = 0
    /\ supersededSum = 0
    /\ lastStartRequest = [p \in Procs |-> NULL]
    /\ lastStartCall = [p \in Procs |-> NULL]
    /\ wire = NoMessage
    /\ state = "IDLE"
    /\ conversationHistory = <<>>
    /\ violationCount = 0
    /\ stream = FALSE
    /\ transcriptBuffer = <<>>
    /\ transcriptTimer = NoTimer
    /\ greeting = "none"
    /\ turns = [i \in TurnSlots |-> NoTurn]
    /\ turnNo = 0
    /\ sinceFragment = NULL
    /\ accepted = <<>>
    /\ act = NoAct
    /\ sttNow = StartClock
    /\ sttTicks = 0
    /\ sttStream = NoStream
    /\ sttOut = NoOut
    /\ speechRun = NoRun
    /\ online = [c \in Procs |-> TRUE]
    /\ dg = <<>>
    /\ streams = 0

\* ------------------------------------------------------------------------
\* startInterviewSession: one Firestore transaction (read, reset,
\* reconcile, lock), atomic at its commit.
\* ------------------------------------------------------------------------
\* if (user.activeSessionId): a session id is a non-empty string, so truthy.
HasSession(u) == u.activeSessionId # NoSession

\* Step 2: currentDailyUsed after the lazy reset.
ResetUsed(u, t) ==
    IF u.lastResetDate # Today(t) THEN 0 ELSE OrElse(u.dailyTimeUsedSec, 0)

\* Step 4: elapsedSeconds of the session that is being superseded.
ElapsedSeconds(u, t) == FloorSec(t - OrElse(u.currentSessionStartTime, t))

\* Mutant of NewDailyUsed: the superseded session is overwritten without
\* its elapsed time being charged.
NewDailyUsed_Discards(u, t) ==
    Min(ResetUsed(u, t), OrElse(u.dailyTimeLimitSec, DEFAULT_LIMIT_SEC))

\* Step 4: newDailyUsed, the elapsed time added and capped at the limit.
NewDailyUsed(u, t) ==
    Min(ResetUsed(u, t) + ElapsedSeconds(u, t),
        OrElse(u.dailyTimeLimitSec, DEFAULT_LIMIT_SEC))

\* The document the transaction commits when it runs on u at time t.
StartDoc(u, t) ==
    LET afterReset ==
            IF u.lastResetDate # Today(t)
            THEN [u EXCEPT !.dailyTimeUsedSec = 0, !.lastResetDate = Today(t)]
            ELSE u
        afterReconcile ==
            IF HasSession(u)
            THEN [afterReset EXCEPT !.dailyTimeUsedSec = NewDailyUsed(u, t)]
            ELSE afterReset
    IN  [afterReconcile EXCEPT !.lastHeartbeatAt = t,
                               !.activeSessionId = MakeSessionId(t),
                               !.currentSessionStartTime = t]

Start(p) ==
    /\ pc[p] = "idle"
    /\ sessNo < MaxSessions
    /\ user' = StartDoc(user, now)
    /\ event' = "started"
    /\ sessNo' = sessNo + 1
    /\ LET charges == HasSession(user)
                       /\ NewDailyUsed(user, now) > ResetUsed(user, now)
       IN  /\ charged' = IF charges THEN charged \cup {sessNo} ELSE charged
           /\ chargedTwice' = (chargedTwice \/ (charges /\ sessNo \in charged))
    /\ closedSum' = IF user.lastResetDate # Today(now) THEN 0 ELSE closedSum
    /\ supersededSum' =
            (IF user.lastResetDate # Today(now) THEN 0 ELSE supersededSum)
            + (IF HasSession(user) THEN ElapsedSeconds(user, now) ELSE 0)
    /\ UNCHANGED <<now, ticks, pc, loc>>

\* ------------------------------------------------------------------------
\* endInterviewSession: findUserByUid, then (after the await) update.
\* ------------------------------------------------------------------------
\* Mutant of InvalidSession: the guard of End never returns early.
InvalidSession_NeverReturns(u) == FALSE

\* if (!user.activeSessionId || !user.currentSessionStartTime)
InvalidSession(u) == ~HasSession(u) \/ Falsy(u.currentSessionStartTime)

\* Mutant of EndDoc: the update forgets to clear currentSessionStartTime.
EndDoc_KeepsStartTime(u, durationSec) ==
    [u EXCEPT !.dailyTimeUsedSec = @ + durationSec,
              !.activeSessionId = NoSession]

\* The update of endInterviewSession: FieldValue.increment(durationSec)
\* and the two fields cleared, applied to the stored document.
EndDoc(u, durationSec) ==
    [u EXCEPT !.dailyTimeUsedSec = @ + durationSec,
              !.activeSessionId = NoSession,
              !.currentSessionStartTime = NULL]

\* The read of End and the code up to the update call: the no-op return,
\* or now and the start time of the snapshot kept for the update.
EndReadStep(p, from, toWrite, noop) ==
    /\ pc[p] = from
    /\ IF InvalidSession(user)
       THEN /\ pc' = [pc EXCEPT ![p] = "idle"]
            /\ event' = noop
            /\ loc' = [loc EXCEPT ![p] = NoLocals]
       ELSE /\ pc' = [pc EXCEPT ![p] = toWrite]
            /\ loc' = [loc EXCEPT ![p] =
                         [ now   |-> now,
                           start |-> user.currentSessionStartTime,
                           sess  |-> sessNo ]]
            /\ UNCHANGED event
    /\ UNCHANGED <<now, ticks, user, hist>>

\* The update of End reaches the store.
EndWriteStep(p, from, done) ==
    /\ pc[p] = from
    /\ LET durationSec == CeilSec(loc[p].now - loc[p].start)
       IN  /\ user' = EndDoc(user, durationSec)
           /\ closedSum' = closedSum + durationSec
           /\ charged' = IF durationSec > 0
                         THEN charged \cup {loc[p].sess} ELSE charged
           /\ chargedTwice' = (chargedTwice
                                \/ (durationSec > 0 /\ loc[p].sess \in charged))
    /\ pc' = [pc EXCEPT ![p] = "idle"]
    /\ loc' = [loc EXCEPT ![p] = NoLocals]
    /\ event' = done
    /\ UNCHANGED <<now, ticks, sessNo, supersededSum>>

EndRead(p) == EndReadStep(p, "idle", "end_write", "end_noop")

EndWrite(p) == EndWriteStep(p, "end_write", "ended")

\* ------------------------------------------------------------------------
\* updateHeartbeat: findUserByUid, then either the forced End and the
\* throw, or the update of lastHeartbeatAt.
\* ------------------------------------------------------------------------
\* user.currentSessionStartTime && (now - user.currentSessionStartTime > MAX_DURATION_MS)
ExceededHardLimit_AtCeiling(u, t) ==
    /\ ~Falsy(u.currentSessionStartTime)
    /\ t - u.currentSessionStartTime >= MAX_DURATION_MS

ExceededHardLimit(u, t) ==
    /\ ~Falsy(u.currentSessionStartTime)
    /\ t - u.currentSessionStartTime > MAX_DURATION_MS

HbRead(p) ==
    /\ pc[p] = "idle"
    /\ IF ~HasSession(user)
       THEN /\ event' = "hb_skip"
            /\ UNCHANGED <<pc, loc>>
       ELSE IF ExceededHardLimit(user, now)
       THEN /\ pc' = [pc EXCEPT ![p] = "hb_end_read"]
            /\ UNCHANGED <<loc, event>>
       ELSE /\ pc' = [pc EXCEPT ![p] = "hb_write"]
            /\ loc' = [loc EXCEPT ![p] = [NoLocals EXCEPT !.now = now]]
            /\ UNCHANGED event
    /\ UNCHANGED <<now, ticks, user, hist>>

\* The update { lastHeartbeatAt: now } reaches the store.
HbWrite(p) ==
    /\ pc[p] = "hb_write"
    /\ user' = [user EXCEPT !.lastHeartbeatAt = loc[p].now]
    /\ pc' = [pc EXCEPT ![p] = "idle"]
    /\ loc' = [loc EXCEPT ![p] = NoLocals]
    /\ event' = "hb_ok"
    /\ UNCHANGED <<now, ticks, hist>>

\* await endInterviewSession(uid) inside updateHeartbeat, then the throw.
HbEndRead(p) == EndReadStep(p, "hb_end_read", "hb_end_write", "hb_killed")

HbEndWrite(p) == EndWriteStep(p, "hb_end_write", "hb_killed")

\* The server clock advances.
Tick ==
    /\ ticks < MaxTicks
    /\ \E d \in TickSteps : now' = now + d
    /\ ticks' = ticks + 1
    /\ UNCHANGED <<user, pc, loc, event, hist>>

Next ==
    \/ Tick /\ UNCHANGED ext
    \/ \E p \in Procs : Start(p) /\ UNCHANGED ext
    \/ \E p \in Procs : EndRead(p) /\ UNCHANGED ext
    \/ \E p \in Procs : EndWrite(p) /\ UNCHANGED ext
    \/ \E p \in Procs : HbRead(p) /\ UNCHANGED ext
    \/ \E p \in Procs : HbWrite(p) /\ UNCHANGED ext
    \/ \E p \in Procs : HbEndRead(p) /\ UNCHANGED ext
    \/ \E p \in Procs : HbEndWrite(p) /\ UNCHANGED ext

\* Any interleaving of the callers' Firestore requests.
Spec == Init /\ [][Next]_vars

\* Calls made one after the other: a caller begins or continues an
\* operation only while every other caller is between operations.
Quiet(p) == \A q \in Procs \ {p} : pc[q] = "idle"

SeqNext ==
    \/ Tick /\ UNCHANGED ext
    \/ \E p \in Procs : Quiet(p) /\ Start(p) /\ UNCHANGED ext
    \/ \E p \in Procs : Quiet(p) /\ EndRead(p) /\ UNCHANGED ext
    \/ \E p \in Procs : Quiet(p) /\ EndWrite(p) /\ UNCHANGED ext
    \/ \E p \in Procs : Quiet(p) /\ HbRead(p) /\ UNCHANGED ext
    \/ \E p \in Procs : Quiet(p) /\ HbWrite(p) /\ UNCHANGED ext
    \/ \E p \in Procs : Quiet(p) /\ HbEndRead(p) /\ UNCHANGED ext
    \/ \E p \in Procs : Quiet(p) /\ HbEndWrite(p) /\ UNCHANGED ext

SeqSpec == Init /\ [][SeqNext]_vars

\* ------------------------------------------------------------------------
\* The socket session handlers (socket/handlers/session.handler.js): each
\* connection sends session:start, session:heartbeat and session:end, and
\* the handler calls the Budget Manager for the connection's user.
\* ------------------------------------------------------------------------
\* now - lastRequest < RATE_LIMIT_MS with lastRequest = Map.get(uid) || 0.
RateLimited_Never(c, t) == FALSE

RateLimited(c, t) == t - OrElse(lastStartRequest[c], 0) < RATE_LIMIT_MS

\* socket.on('session:start'): a request inside the cooldown is answered
\* with success:false and returns; any other request records its time,
\* calls startInterviewSession and is answered with the session id.
OnSessionStart(c) ==
    /\ pc[c] = "idle"
    /\ IF RateLimited(c, now)
       THEN /\ wire' = Message(c, "session:start", "success:false")
            /\ UNCHANGED <<now, ticks, user, pc, loc, event, hist,
                           lastStartRequest, lastStartCall>>
       ELSE /\ lastStartRequest' = [lastStartRequest EXCEPT ![c] = now]
            /\ lastStartCall' = [lastStartCall EXCEPT ![c] = now]
            /\ Start(c)
            /\ wire' = Message(c, "session:start", "success:true")

\* socket.on('session:heartbeat'): awaits updateHeartbeat inside a
\* try/catch that only logs; there is no callback and nothing is emitted.
OnHeartbeat(c, step) ==
    /\ \/ step = "read" /\ HbRead(c)
       \/ step = "write" /\ HbWrite(c)
       \/ step = "end_read" /\ HbEndRead(c)
       \/ step = "end_write" /\ HbEndWrite(c)
    /\ wire' = Message(c, "session:heartbeat", "none")
    /\ UNCHANGED <<lastStartRequest, lastStartCall>>

\* socket.on('session:end'): awaits endInterviewSession and acknowledges
\* with success:true once it has returned.
OnSessionEnd(c, step) ==
    /\ \/ step = "read" /\ EndRead(c)
       \/ step = "write" /\ EndWrite(c)
    /\ wire' = Message(c, "session:end",
                       IF pc'[c] = "idle" THEN "success:true" ELSE "none")
    /\ UNCHANGED <<lastStartRequest, lastStartCall>>

\* Time passes between two socket messages.
ConnTick ==
    /\ ticks < MaxTicks
    /\ \E d \in ConnTickSteps : now' = now + d
    /\ ticks' = ticks + 1
    /\ wire' = NoMessage
    /\ UNCHANGED <<user, pc, loc, event, hist, lastStartRequest, lastStartCall>>

ConnNext ==
    \/ ConnTick /\ UNCHANGED <<orchVars, sttVars, lifeVars>>
    \/ \E c \in Procs : Quiet(c) /\ OnSessionStart(c) /\ UNCHANGED <<orchVars, sttVars, lifeVars>>
    \/ \E c \in Procs : Quiet(c) /\ OnHeartbeat(c, "read") /\ UNCHANGED <<orchVars, sttVars, lifeVars>>
    \/ \E c \in Procs : Quiet(c) /\ OnHeartbeat(c, "write") /\ UNCHANGED <<orchVars, sttVars, lifeVars>>
    \/ \E c \in Procs : Quiet(c) /\ OnHeartbeat(c, "end_read") /\ UNCHANGED <<orchVars, sttVars, lifeVars>>
    \/ \E c \in Procs : Quiet(c) /\ OnHeartbeat(c, "end_write") /\ UNCHANGED <<orchVars, sttVars, lifeVars>>
    \/ \E c \in Procs : Quiet(c) /\ OnSessionEnd(c, "read") /\ UNCHANGED <<orchVars, sttVars, lifeVars>>
    \/ \E c \in Procs : Quiet(c) /\ OnSessionEnd(c, "write") /\ UNCHANGED <<orchVars, sttVars, lifeVars>>

\* The connections' messages over the Budget Manager, each handled to its
\* end before a message of another connection is taken up.
ConnSpec == Init /\ [][ConnNext]_vars

\* ------------------------------------------------------------------------
\* Text helpers of the interview handler
\* ------------------------------------------------------------------------
\* String.prototype.trim.
RECURSIVE TrimLeft(_)
TrimLeft(s) == IF s # <<>> /\ Head(s) = " " THEN TrimLeft(Tail(s)) ELSE s

RECURSIVE TrimRight(_)
TrimRight(s) ==
    IF s # <<>> /\ s[Len(s)] = " "
    THEN TrimRight(SubSeq(s, 1, Len(s) - 1)) ELSE s

Trim(s) == TrimRight(TrimLeft(s))

\* ['.', '?', '!'].includes(text.trim().slice(-1)).
EndsSentence(s) == Trim(s) # <<>> /\ Trim(s)[Len(Trim(s))] = "."

\* waitTime of the transcript timer.
WaitTime(buffer) == IF EndsSentence(buffer) THEN WAIT_SHORT_MS ELSE WAIT_LONG_MS

SafeTranscript_NoCut(s) == s

\* substring(0, MAX_TRANSCRIPT_LENGTH) + '...' when the text is too long.
SafeTranscript(s) ==
    IF Len(s) > MAX_TRANSCRIPT_LENGTH
    THEN SubSeq(s, 1, MAX_TRANSCRIPT_LENGTH) \o <<".", ".", ".">>
    ELSE s

\* Number of whitespace characters of s from position i on.
RECURSIVE SpacesFrom(_, _)
SpacesFrom(s, i) ==
    IF i <= Len(s) /\ s[i] = " " THEN 1 + SpacesFrom(s, i + 1) ELSE 0

\* sentenceBuffer.match(/([.?!]+)(\s+|$)/): index + match[0].length of the
\* leftmost match, 0 when nothing matches.  A run of punctuation matches
\* when whitespace or the end of the text follows it.
MatchEnd(s) ==
    LET ends == { i \in 1..Len(s) :
                    /\ s[i] = "."
                    /\ (i = Len(s) \/ s[i + 1] = " ") }
    IN IF ends = {} THEN 0
       ELSE LET k == CHOOSE i \in ends : \A j \in ends : i <= j
            IN k + SpacesFrom(s, k + 1)

\* TTSService.generateAudio: the text it synthesizes (cut to
\* MAX_CHARACTERS, back to the last full stop or with '...' appended).
RECURSIVE LastDot(_)
LastDot(s) ==
    IF s = <<>> THEN 0
    ELSE IF s[Len(s)] = "." THEN Len(s)
    ELSE LastDot(SubSeq(s, 1, Len(s) - 1))

CleanText(text) ==
    IF Len(text) > TTS_MAX_CHARACTERS
    THEN LET cut == SubSeq(text, 1, TTS_MAX_CHARACTERS)
         IN IF LastDot(cut) > 1 THEN SubSeq(cut, 1, LastDot(cut))
            ELSE cut \o <<".", ".", ".">>
    ELSE text

\* The audio TTS returns for a text.
Audio(text) == <<"mp3">> \o CleanText(text)

AudioChunk(text) == Event("audio:chunk", "", text, Audio(text))

\* conversationHistory.push(...) followed by slice(-20).
Pushed(h, role) == Append(h, role)

Sliced(h) ==
    IF Len(h) > MAX_HISTORY THEN SubSeq(h, Len(h) - MAX_HISTORY + 1, Len(h))
    ELSE h

\* The message list generateResponseStream sends (by role): the system
\* prompt, the history it is given, the user message.
Messages(history) == <<"system">> \o history \o <<"user">>

\* ------------------------------------------------------------------------
\* The interview handler of one connection
\* (socket/handlers/session.handler.js, lines 456-774).
\* ------------------------------------------------------------------------
\* The slot a new call of handleUserTurnComplete runs in.
FreeSlots == { i \in TurnSlots : turns[i].pc = "free" }

NextSlot == CHOOSE i \in FreeSlots : \A j \in FreeSlots : i <= j

\* handleUserTurnComplete up to its first await (from: what the calling
\* step has received): nothing for an empty
\* text; otherwise THINKING, two events, the user's entry in the history
\* and the LLM stream is requested with the history as it is then.
BeginTurn(userText, from) ==
    IF userText = <<>>
    THEN /\ act' = from
         /\ UNCHANGED <<state, conversationHistory, turns, turnNo>>
    ELSE /\ FreeSlots # {}
         /\ state' = "THINKING"
         /\ act' = [from EXCEPT
                        !.emits = << Status("THINKING"),
                                     Event("user:transcript", "", userText, <<>>) >>,
                        !.request = Messages(Pushed(conversationHistory, "user"))]
         /\ conversationHistory' = Pushed(conversationHistory, "user")
         /\ turns' = [turns EXCEPT ![NextSlot] = [NoTurn EXCEPT !.pc = "llm"]]
         /\ turnNo' = turnNo + 1

InterviewStart_AwaitsGreeting ==
    /\ ~stream
    /\ conversationHistory' = Pushed(conversationHistory, "assistant")
    /\ greeting' = "pending"
    /\ state' = "SPEAKING"
    /\ stream' = TRUE
    /\ transcriptBuffer' = <<>>
    /\ transcriptTimer' = NoTimer
    /\ act' = Emits(<< Status("SPEAKING") >>)
    /\ UNCHANGED <<violationCount, turns, turnNo, sinceFragment, accepted>>

\* socket.on('interview:start'): greeting into the history, SPEAKING, the
\* greeting's sendAudioChunk is started but not awaited, LISTENING, the
\* STT stream is opened with the transcript callback.  The handler has no
\* guard of its own; a behaviour here holds one interview:start per
\* connection.
InterviewStart ==
    /\ ~stream
    /\ conversationHistory' = Pushed(conversationHistory, "assistant")
    /\ greeting' = "pending"
    /\ state' = "LISTENING"
    /\ stream' = TRUE
    /\ transcriptBuffer' = <<>>
    /\ transcriptTimer' = NoTimer
    /\ act' = Emits(<< Status("SPEAKING"), Status("LISTENING") >>)
    /\ UNCHANGED <<violationCount, turns, turnNo, sinceFragment, accepted>>

\* The greeting's TTS call settles: sendAudioChunk emits the audio, or
\* logs the failure.
GreetingSpoken(ok) ==
    /\ greeting = "pending"
    /\ greeting' = "done"
    /\ act' = Emits(IF ok THEN << AudioChunk(GREETING_TEXT) >> ELSE <<>>)
    /\ UNCHANGED <<state, conversationHistory, violationCount, stream,
                   transcriptBuffer, transcriptTimer, turns, turnNo,
                   sinceFragment, accepted>>

\* The STT engine delivers a transcript (stt.service.js, Transcript
\* event): only a final one is passed to the handler's callback, which
\* outside LISTENING returns at once and otherwise clears the timer,
\* appends the text to the buffer and sets the timer anew.
OnTranscript(text, isFinal) ==
    /\ stream
    /\ isFinal => \/ transcriptBuffer = <<>>
                   \/ Len(transcriptBuffer) + 1 + Len(text) <= MaxBufferLen
    /\ IF isFinal /\ state = "LISTENING" /\ Trim(text) # <<>>
       THEN LET buffer == transcriptBuffer
                            \o (IF transcriptBuffer # <<>> THEN <<" ">> ELSE <<>>)
                            \o Trim(text)
            IN /\ transcriptBuffer' = buffer
               /\ transcriptTimer' = [ left |-> WaitTime(buffer),
                                       wait |-> WaitTime(buffer) ]
               /\ accepted' = Append(accepted, text)
       ELSE UNCHANGED <<transcriptBuffer, transcriptTimer, accepted>>
    /\ sinceFragment' = IF /\ state = "LISTENING"
                           /\ transcriptTimer' # NoTimer
                           /\ transcriptTimer'.left > 0
                        THEN 0 ELSE sinceFragment
    /\ act' = IF state = "LISTENING"
              THEN [NoAct EXCEPT !.fragment =
                                    IF isFinal THEN "final" ELSE "interim"]
              ELSE NoAct
    /\ UNCHANGED <<state, conversationHistory, violationCount, stream,
                   greeting, turns, turnNo>>

TimerFires_KeepsBuffer ==
    /\ transcriptTimer # NoTimer
    /\ transcriptTimer.left = 0
    /\ transcriptTimer' = NoTimer
    /\ IF Trim(transcriptBuffer) = <<>>
       THEN /\ act' = NoAct
            /\ UNCHANGED <<state, conversationHistory, turns, turnNo,
                           transcriptBuffer>>
       ELSE /\ UNCHANGED transcriptBuffer
            /\ BeginTurn(SafeTranscript(transcriptBuffer), NoAct)
    /\ sinceFragment' = NULL
    /\ accepted' = IF Trim(transcriptBuffer) = <<>> THEN accepted ELSE <<>>
    /\ UNCHANGED <<violationCount, stream, greeting>>

\* The transcript timer fires: an empty buffer is ignored; otherwise the
\* buffer is emptied and handed to handleUserTurnComplete.
TimerFires ==
    /\ transcriptTimer # NoTimer
    /\ transcriptTimer.left = 0
    /\ transcriptTimer' = NoTimer
    /\ IF Trim(transcriptBuffer) = <<>>
       THEN /\ act' = NoAct
            /\ UNCHANGED <<state, conversationHistory, turns, turnNo,
                           transcriptBuffer>>
       ELSE /\ transcriptBuffer' = <<>>
            /\ BeginTurn(SafeTranscript(transcriptBuffer), NoAct)
    /\ sinceFragment' = NULL
    /\ accepted' = IF Trim(transcriptBuffer) = <<>> THEN accepted ELSE <<>>
    /\ UNCHANGED <<violationCount, stream, greeting>>

\* audioData.length > MAX_AUDIO_CHUNK_SIZE.
TooLarge_Never(size) == FALSE

TooLarge(size) == size > MAX_AUDIO_CHUNK_SIZE

OnAudioChunk_AnyState(size, sttResult) ==
    /\ act' = IF TooLarge(size)
              THEN Act(<<>>, size, FALSE)
              ELSE [Act(IF sttResult \in {"SILENCE_TIMEOUT",
                                         "MAX_DURATION_EXCEEDED"}
                        THEN << Status("LISTENING") >> ELSE <<>>,
                        size, TRUE)
                      EXCEPT !.signal = sttResult]
    /\ UNCHANGED <<state, conversationHistory, violationCount, stream,
                   transcriptBuffer, transcriptTimer, greeting, turns, turnNo,
                   sinceFragment, accepted>>

OnAudioChunk_Aborts(size, sttResult) ==
    /\ act' = IF state # "LISTENING" \/ TooLarge(size)
              THEN Act(<<>>, size, FALSE)
              ELSE [Act(IF sttResult \in {"SILENCE_TIMEOUT",
                                         "MAX_DURATION_EXCEEDED"}
                        THEN << Status("IDLE") >> ELSE <<>>,
                        size, TRUE)
                      EXCEPT !.signal = sttResult]
    /\ state' = IF /\ state = "LISTENING" /\ ~TooLarge(size)
                   /\ sttResult \in {"SILENCE_TIMEOUT", "MAX_DURATION_EXCEEDED"}
                THEN "IDLE" ELSE state
    /\ UNCHANGED <<conversationHistory, violationCount, stream,
                   transcriptBuffer, transcriptTimer, greeting, turns, turnNo,
                   sinceFragment, accepted>>

\* socket.on('audio:chunk'): ignored outside LISTENING and when larger
\* than MAX_AUDIO_CHUNK_SIZE; otherwise handed to STTService.processAudio,
\* whose answer (it depends on the speech timing of the stream) decides
\* whether a status is emitted.
OnAudioChunk(size, sttResult) ==
    /\ act' = IF state # "LISTENING" \/ TooLarge(size)
              THEN Act(<<>>, size, FALSE)
              ELSE [Act(IF sttResult \in {"SILENCE_TIMEOUT",
                                         "MAX_DURATION_EXCEEDED"}
                        THEN << Status("LISTENING") >> ELSE <<>>,
                        size, TRUE)
                      EXCEPT !.signal = sttResult]
    /\ UNCHANGED <<state, conversationHistory, violationCount, stream,
                   transcriptBuffer, transcriptTimer, greeting, turns, turnNo,
                   sinceFragment, accepted>>

\* socket.on('audio:end'): outside LISTENING it returns at once; in
\* LISTENING the client's transcript is read, cut to MAX_TRANSCRIPT_LENGTH
\* and handed to handleUserTurnComplete.
OnAudioEnd(transcript) ==
    /\ IF state # "LISTENING"
       THEN /\ act' = NoAct
            /\ UNCHANGED <<state, conversationHistory, turns, turnNo>>
       ELSE BeginTurn(SafeTranscript(transcript),
                      [NoAct EXCEPT !.transcript = << transcript >>])
    /\ UNCHANGED <<violationCount, stream, transcriptBuffer, transcriptTimer,
                   greeting, sinceFragment, accepted>>

FinishTurn_StaysPut(i, emits) ==
    /\ turns' = [turns EXCEPT ![i] = NoTurn]
    /\ conversationHistory' = Sliced(Pushed(conversationHistory, "assistant"))
    /\ act' = Emits(emits)
    /\ UNCHANGED state

\* The end of handleUserTurnComplete: the assistant's entry in the
\* history, LISTENING and its status event.  (The catch block, which would
\* emit an error event, is never entered: generateResponseStream catches
\* the errors of the LLM request and sendAudioChunk those of the TTS call.)
FinishTurn(i, emits) ==
    /\ turns' = [turns EXCEPT ![i] = NoTurn]
    /\ conversationHistory' = Sliced(Pushed(conversationHistory, "assistant"))
    /\ state' = "LISTENING"
    /\ act' = Emits(emits \o << Status("LISTENING") >>)

\* A sentence is handed to sendAudioChunk: SPEAKING and its status event
\* on the first one of the turn, then the await of the TTS call.
Speak(i, t, text, at) ==
    LET emits == IF t.isFirstChunk THEN << Status("SPEAKING") >> ELSE <<>>
    IN /\ turns' = [turns EXCEPT ![i] = [Noted(t, emits) EXCEPT
                                            !.pc = at, !.tts = text,
                                            !.isFirstChunk = FALSE]]
       /\ state' = IF t.isFirstChunk THEN "SPEAKING" ELSE state
       /\ act' = Emits(emits)
       /\ UNCHANGED conversationHistory

TakeChunk_NoAwait(i, t, chunk) ==
    LET buffer == t.sentenceBuffer \o chunk
        index == MatchEnd(buffer)
        sentence == SubSeq(buffer, 1, index)
        remaining == SubSeq(buffer, index + 1, Len(buffer))
        t1 == [t EXCEPT !.fullAiResponse = @ \o chunk, !.chunks = @ + 1]
    IN IF index = 0
       THEN /\ turns' = [turns EXCEPT ![i] = [t1 EXCEPT !.sentenceBuffer = buffer]]
            /\ act' = NoAct
            /\ UNCHANGED <<state, conversationHistory>>
       ELSE IF Trim(sentence) = <<>>
       THEN /\ turns' = [turns EXCEPT ![i] = [t1 EXCEPT !.sentenceBuffer = remaining]]
            /\ act' = NoAct
            /\ UNCHANGED <<state, conversationHistory>>
       ELSE Speak(i, [t1 EXCEPT !.sentenceBuffer = remaining],
                  Trim(sentence), "llm")

\* The body of the for-await loop for one chunk: the chunk is appended
\* and at most one sentence, the text up to the end of the first match,
\* is cut off the buffer and spoken.
TakeChunk(i, t, chunk) ==
    LET buffer == t.sentenceBuffer \o chunk
        index == MatchEnd(buffer)
        sentence == SubSeq(buffer, 1, index)
        remaining == SubSeq(buffer, index + 1, Len(buffer))
        t1 == [t EXCEPT !.fullAiResponse = @ \o chunk, !.chunks = @ + 1]
    IN IF index = 0
       THEN /\ turns' = [turns EXCEPT ![i] = [t1 EXCEPT !.sentenceBuffer = buffer]]
            /\ act' = NoAct
            /\ UNCHANGED <<state, conversationHistory>>
       ELSE IF Trim(sentence) = <<>>
       THEN /\ turns' = [turns EXCEPT ![i] = [t1 EXCEPT !.sentenceBuffer = remaining]]
            /\ act' = NoAct
            /\ UNCHANGED <<state, conversationHistory>>
       ELSE Speak(i, [t1 EXCEPT !.sentenceBuffer = remaining],
                  Trim(sentence), "tts")

\* After the loop: what is left in the buffer is spoken, or the turn
\* finishes.
AfterStream(i, t) ==
    IF Trim(t.sentenceBuffer) # <<>>
    THEN Speak(i, t, Trim(t.sentenceBuffer), "tts_last")
    ELSE FinishTurn(i, <<>>)

\* The LLM stream yields a chunk: the for-await loop takes it only when it
\* is not suspended in the await of sendAudioChunk.
LLMYields(i, chunk) ==
    /\ turns[i].pc = "llm"
    /\ ~turns[i].llmFailed
    /\ turns[i].chunks < MaxChunks
    /\ TakeChunk(i, turns[i], chunk)
    /\ UNCHANGED <<violationCount, stream, transcriptBuffer, transcriptTimer,
                   greeting, turnNo, sinceFragment, accepted>>

\* The LLM request fails or times out: generateResponseStream catches
\* the error and yields its fallback sentence as a chunk.
LLMFails(i) ==
    /\ turns[i].pc = "llm"
    /\ ~turns[i].llmFailed
    /\ TakeChunk(i, [turns[i] EXCEPT !.llmFailed = TRUE], LLM_FALLBACK)
    /\ UNCHANGED <<violationCount, stream, transcriptBuffer, transcriptTimer,
                   greeting, turnNo, sinceFragment, accepted>>

\* The LLM stream ends.
LLMEnds(i) ==
    /\ turns[i].pc = "llm"
    /\ AfterStream(i, turns[i])
    /\ UNCHANGED <<violationCount, stream, transcriptBuffer, transcriptTimer,
                   greeting, turnNo, sinceFragment, accepted>>

\* The TTS call of a turn settles: sendAudioChunk emits the audio with the
\* text, or logs the failure; the turn goes on with the stream, or
\* finishes after the last text.
TTSSettles(i, ok) ==
    /\ turns[i].pc \in {"tts", "tts_last"}
    /\ LET t == turns[i]
           emits == IF ok THEN << AudioChunk(t.tts) >> ELSE <<>>
           t1 == [t EXCEPT !.tts = <<>>,
                           !.spoken = IF t.ttsFailed \/ ~ok THEN <<>>
                                      ELSE Append(@, AudioChunk(t.tts)),
                           !.ttsFailed = @ \/ ~ok]
       IN IF t.pc = "tts_last"
          THEN FinishTurn(i, emits)
          ELSE /\ turns' = [turns EXCEPT ![i] = [Noted(t1, emits) EXCEPT
                                                    !.pc = "llm"]]
               /\ act' = Emits(emits)
               /\ UNCHANGED <<state, conversationHistory>>
    /\ UNCHANGED <<violationCount, stream, transcriptBuffer, transcriptTimer,
                   greeting, turnNo, sinceFragment, accepted>>

\* socket.on('session:violation'): a warning on the first one; from the
\* second one on IDLE and session:end.
OnViolation_AlwaysEnds ==
    /\ violationCount < MaxViolations
    /\ violationCount' = violationCount + 1
    /\ state' = "IDLE"
    /\ act' = Emits(<< Event("session:end", "", <<>>, <<>>) >>)
    /\ UNCHANGED <<conversationHistory, stream, transcriptBuffer,
                   transcriptTimer, greeting, turns, turnNo, sinceFragment, accepted>>

OnViolation ==
    /\ violationCount < MaxViolations
    /\ violationCount' = violationCount + 1
    /\ IF violationCount + 1 = 1
       THEN /\ act' = Emits(<< Event("session:warning", "", <<>>, <<>>) >>)
            /\ UNCHANGED state
       ELSE /\ state' = "IDLE"
            /\ act' = Emits(<< Event("session:end", "", <<>>, <<>>) >>)
    /\ UNCHANGED <<conversationHistory, stream, transcriptBuffer,
                   transcriptTimer, greeting, turns, turnNo, sinceFragment, accepted>>

\* Time passes, at most until the pending timer is due: the timer fires
\* on time.
OrchTick ==
    \E step \in OrchTickSteps :
       LET d == IF transcriptTimer = NoTimer THEN step
                ELSE Min(step, transcriptTimer.left)
       IN
       /\ transcriptTimer # NoTimer => transcriptTimer.left > 0
       /\ transcriptTimer' =
             IF transcriptTimer = NoTimer THEN NoTimer
             ELSE [transcriptTimer EXCEPT !.left = @ - d]
       /\ sinceFragment' =
             IF sinceFragment = NULL THEN NULL
             ELSE Min(sinceFragment + d, WAIT_LONG_MS)
       /\ act' = NoAct
       /\ UNCHANGED <<state, conversationHistory, violationCount, stream,
                      transcriptBuffer, greeting, turns, turnNo, accepted>>

\* The step A, taken only if it begins no turn beyond the limit-th of
\* the behaviour.
Within(limit, A) == A /\ (turnNo' # turnNo => turnNo < limit)

OrchNext ==
    \/ OrchTick /\ UNCHANGED rest
    \/ InterviewStart /\ UNCHANGED rest
    \/ \E ok \in BOOLEAN : GreetingSpoken(ok) /\ UNCHANGED rest
    \/ \E text \in Fragments, isFinal \in BOOLEAN :
          OnTranscript(text, isFinal) /\ UNCHANGED rest
    \/ Within(MaxTurns, TimerFires) /\ UNCHANGED rest
    \/ \E size \in AudioSizes, r \in SttResults :
          OnAudioChunk(size, r) /\ UNCHANGED rest
    \/ \E transcript \in ClientTranscripts :
          Within(MaxTurns, OnAudioEnd(transcript)) /\ UNCHANGED rest
    \/ \E i \in TurnSlots, chunk \in Chunks :
          LLMYields(i, chunk) /\ UNCHANGED rest
    \/ \E i \in TurnSlots : LLMFails(i) /\ UNCHANGED rest
    \/ \E i \in TurnSlots : LLMEnds(i) /\ UNCHANGED rest
    \/ \E i \in TurnSlots, ok \in BOOLEAN :
          TTSSettles(i, ok) /\ UNCHANGED rest
    \/ OnViolation /\ UNCHANGED rest

\* One connection's interview: the client's messages, the STT engine's
\* transcripts, the timer and the providers' answers in any order.
OrchSpec == Init /\ [][OrchNext]_vars

\* The providers answer: every LLM request ends (it is made with a timeout
\* of AI_CONFIG.LLM.TIMEOUT_MS and max_tokens bounds the stream) and every
\* TTS request settles with audio or an error.
ProviderAnswers(i) ==
    /\ UNCHANGED rest
    /\ \/ LLMEnds(i)
       \/ \E ok \in BOOLEAN : TTSSettles(i, ok)

OrchFairSpec ==
    OrchSpec /\ \A i \in TurnSlots : WF_vars(ProviderAnswers(i))

\* ------------------------------------------------------------------------
\* The STT service for one user (services/ai/stt.service.js, lines 126-306)
\* ------------------------------------------------------------------------
\* startStream: a new entry in this.streams.
StartStream ==
    /\ ~sttStream.open
    /\ sttStream' = [ lastVoiceTime |-> sttNow, continuousSpeechStart |-> NULL,
                      isSpeaking |-> FALSE, open |-> TRUE ]
    /\ sttOut' = NoOut
    /\ speechRun' = NoRun
    /\ UNCHANGED <<sttNow, sttTicks>>

\* The Transcript listener: a transcript that is not blank is voice
\* activity; continuousSpeechStart is set when it is not set yet; a final
\* transcript is passed to the onTranscript callback.
SttTranscript(text, isFinal) ==
    /\ sttStream.open
    /\ IF Trim(text) # <<>>
       THEN /\ sttStream' =
                  [sttStream EXCEPT
                     !.lastVoiceTime = sttNow,
                     !.isSpeaking = TRUE,
                     !.continuousSpeechStart = IF Falsy(@) THEN sttNow ELSE @]
            /\ sttOut' = SttOut("none", isFinal)
            /\ speechRun' =
                  IF speechRun = NoRun
                     \/ sttNow - speechRun.last > SILENCE_TIMEOUT_MS
                  THEN [start |-> sttNow, last |-> sttNow]
                  ELSE [speechRun EXCEPT !.last = sttNow]
       ELSE /\ sttOut' = NoOut
            /\ UNCHANGED <<sttStream, speechRun>>
    /\ UNCHANGED <<sttNow, sttTicks>>

\* The value processAudio returns.
ProcessAudioResult ==
    IF ~sttStream.open THEN "ERROR_NO_STREAM"
    ELSE IF /\ sttStream.isSpeaking
            /\ ~Falsy(sttStream.continuousSpeechStart)
            /\ sttNow - sttStream.continuousSpeechStart
                  > MAX_CONTINUOUS_SPEECH_MS
    THEN "MAX_DURATION_EXCEEDED"
    ELSE IF sttNow - sttStream.lastVoiceTime > SILENCE_TIMEOUT_MS
    THEN "SILENCE_TIMEOUT"
    ELSE "CONTINUE"

\* processAudio: the chunk is sent to Deepgram and the safeguards are
\* checked; the stream's state is only read.
ProcessAudio ==
    /\ sttOut' = SttOut(ProcessAudioResult, FALSE)
    /\ UNCHANGED <<sttNow, sttTicks, sttStream, speechRun>>

\* endStream: the entry is deleted.
EndStream ==
    /\ sttStream.open
    /\ sttStream' = NoStream
    /\ sttOut' = NoOut
    /\ speechRun' = NoRun
    /\ UNCHANGED <<sttNow, sttTicks>>

\* Time passes.
SttTick ==
    \E step \in SttTickSteps :
       /\ sttTicks < MaxSttTicks
       /\ sttNow' = sttNow + step
       /\ sttTicks' = sttTicks + 1
       /\ sttOut' = NoOut
       /\ UNCHANGED <<sttStream, speechRun>>

SttNext ==
    \/ SttTick /\ UNCHANGED <<budgetVars, connVars, orchVars, lifeVars>>
    \/ StartStream /\ UNCHANGED <<budgetVars, connVars, orchVars, lifeVars>>
    \/ \E text \in SttTexts, isFinal \in BOOLEAN :
          SttTranscript(text, isFinal)
             /\ UNCHANGED <<budgetVars, connVars, orchVars, lifeVars>>
    \/ ProcessAudio /\ UNCHANGED <<budgetVars, connVars, orchVars, lifeVars>>
    \/ EndStream /\ UNCHANGED <<budgetVars, connVars, orchVars, lifeVars>>

\* The STT service on its own: streams are started and ended, transcripts
\* arrive and audio chunks are processed at any times.
SttSpec == Init /\ [][SttNext]_vars

\* The listening side of the interview with long texts: transcripts and
\* audio:end messages of any length, the timer and the turns they start
\* (no audio chunks and no violations arrive).
LongNext ==
    \/ OrchTick /\ UNCHANGED rest
    \/ InterviewStart /\ UNCHANGED rest
    \/ \E ok \in BOOLEAN : GreetingSpoken(ok) /\ UNCHANGED rest
    \/ \E text \in LongFragments, isFinal \in BOOLEAN :
          OnTranscript(text, isFinal) /\ UNCHANGED rest
    \/ Within(MaxTurns, TimerFires) /\ UNCHANGED rest
    \/ \E transcript \in LongTranscripts :
          Within(MaxTurns, OnAudioEnd(transcript)) /\ UNCHANGED rest
    \/ \E i \in TurnSlots, chunk \in Chunks :
          LLMYields(i, chunk) /\ UNCHANGED rest
    \/ \E i \in TurnSlots : LLMFails(i) /\ UNCHANGED rest
    \/ \E i \in TurnSlots : LLMEnds(i) /\ UNCHANGED rest
    \/ \E i \in TurnSlots, ok \in BOOLEAN :
          TTSSettles(i, ok) /\ UNCHANGED rest

LongSpec == Init /\ [][LongNext]_vars

\* A connection's session messages together with its session:violation
\* messages: the interview handler is registered on the same socket as the
\* session handler, for the same user.
TermNext ==
    \/ ConnNext
    \/ OnViolation /\ UNCHANGED rest

TermSpec == Init /\ [][TermNext]_vars

\* ------------------------------------------------------------------------
\* The end of a connection (session.handler.js, lines 770-773)
\* ------------------------------------------------------------------------
\* The connection whose interview handler is followed.
TheConn == "tab1"

\* socket.on('disconnect') of the interview handler: endStream and the
\* history is emptied.  The timer, the buffer, the state and the running
\* calls are left as they are.
OnDisconnect ==
    /\ online[TheConn]
    /\ online' = [online EXCEPT ![TheConn] = FALSE]
    /\ stream' = FALSE
    /\ conversationHistory' = <<>>
    /\ act' = NoAct
    /\ UNCHANGED <<state, violationCount, transcriptBuffer, transcriptTimer,
                   greeting, turns, turnNo, sinceFragment, accepted>>
    /\ UNCHANGED <<budgetVars, connVars, sttVars, dg, streams>>

DiscNext ==
    \/ OrchTick /\ UNCHANGED rest
    \/ online[TheConn] /\ InterviewStart /\ UNCHANGED rest
    \/ \E ok \in BOOLEAN : GreetingSpoken(ok) /\ UNCHANGED rest
    \/ \E text \in Fragments, isFinal \in BOOLEAN :
          OnTranscript(text, isFinal) /\ UNCHANGED rest
    \/ Within(MaxTurns, TimerFires) /\ UNCHANGED rest
    \/ \E transcript \in ClientTranscripts :
          /\ online[TheConn]
          /\ Within(MaxTurns, OnAudioEnd(transcript))
          /\ UNCHANGED rest
    \/ \E i \in TurnSlots, chunk \in Chunks :
          LLMYields(i, chunk) /\ UNCHANGED rest
    \/ \E i \in TurnSlots : LLMFails(i) /\ UNCHANGED rest
    \/ \E i \in TurnSlots : LLMEnds(i) /\ UNCHANGED rest
    \/ \E i \in TurnSlots, ok \in BOOLEAN :
          TTSSettles(i, ok) /\ UNCHANGED rest
    \/ OnDisconnect

\* The interview of a connection that may disconnect at any time: the
\* client's messages stop, the timer, the STT engine and the providers
\* go on.
DiscSpec == Init /\ [][DiscNext]_vars

\* ------------------------------------------------------------------------
\* The streams of the STT service for a user with several sockets
\* (stt.service.js, lines 175-242 and 295-302)
\* ------------------------------------------------------------------------
\* A Deepgram connection created for socket c.
Connection(c) == [ owner |-> c, status |-> "open" ]

\* The connections that are open: created, and neither finished by
\* endStream nor closed by Deepgram.
OpenConnections == { k \in 1..Len(dg) : dg[k].status = "open" }

\* interview:start of socket c calls startStream(uid, callback): a new
\* connection is created and set as the user's entry of the map, whatever
\* the map held.
SockInterviewStart(c) ==
    /\ online[c]
    /\ Len(dg) < MaxStreams
    /\ dg' = Append(dg, Connection(c))
    /\ streams' = Len(dg) + 1
    /\ UNCHANGED online

\* disconnect of socket c calls endStream(uid): the connection in the
\* user's entry is finished, if there is an entry, and the entry is
\* deleted.
SockDisconnect(c) ==
    /\ online[c]
    /\ online' = [online EXCEPT ![c] = FALSE]
    /\ dg' = IF streams # 0 /\ dg[streams].status = "open"
             THEN [dg EXCEPT ![streams].status = "finished"]
             ELSE dg
    /\ streams' = 0

\* The Close event of connection k (Deepgram has closed it, after finish
\* or on its own): the listener deletes the user's entry of the map.
DeepgramCloses(k) ==
    /\ k \in 1..Len(dg)
    /\ dg[k].status \in {"open", "finished"}
    /\ dg' = [dg EXCEPT ![k].status = "closed"]
    /\ streams' = 0
    /\ UNCHANGED online

StreamsNext ==
    \/ \E c \in Procs :
          SockInterviewStart(c) /\ UNCHANGED <<budgetVars, connVars, orchVars, sttVars>>
    \/ \E c \in Procs :
          SockDisconnect(c) /\ UNCHANGED <<budgetVars, connVars, orchVars, sttVars>>
    \/ \E k \in 1..MaxStreams :
          DeepgramCloses(k) /\ UNCHANGED <<budgetVars, connVars, orchVars, sttVars>>

\* The user's sockets start interviews and disconnect in any order, and
\* Deepgram closes connections at any time.
StreamsSpec == Init /\ [][StreamsNext]_vars

PipeNext ==
    \/ OrchTick /\ UNCHANGED rest
    \/ InterviewStart /\ UNCHANGED rest
    \/ \E ok \in BOOLEAN : GreetingSpoken(ok) /\ UNCHANGED rest
    \/ \E text \in Fragments, isFinal \in BOOLEAN :
          OnTranscript(text, isFinal) /\ UNCHANGED rest
    \/ Within(MaxTurns + 1, TimerFires) /\ UNCHANGED rest
    \/ \E transcript \in ClientTranscripts :
          Within(MaxTurns + 1, OnAudioEnd(transcript)) /\ UNCHANGED rest
    \/ \E i \in TurnSlots, chunk \in Chunks :
          LLMYields(i, chunk) /\ UNCHANGED rest
    \/ \E i \in TurnSlots : LLMFails(i) /\ UNCHANGED rest
    \/ \E i \in TurnSlots : LLMEnds(i) /\ UNCHANGED rest
    \/ \E i \in TurnSlots, ok \in BOOLEAN :
          TTSSettles(i, ok) /\ UNCHANGED rest

\* The interview with room for one turn more, so that a turn can begin
\* while the one before it is still running; audio chunks and violations
\* are left out.
PipeSpec == Init /\ [][PipeNext]_vars

SessNext ==
    \/ ConnTick /\ UNCHANGED <<orchVars, sttVars, lifeVars>>
    \/ OnSessionStart(TheConn) /\ UNCHANGED <<orchVars, sttVars, lifeVars>>
    \/ OnHeartbeat(TheConn, "read") /\ UNCHANGED <<orchVars, sttVars, lifeVars>>
    \/ OnHeartbeat(TheConn, "write") /\ UNCHANGED <<orchVars, sttVars, lifeVars>>
    \/ OnHeartbeat(TheConn, "end_read") /\ UNCHANGED <<orchVars, sttVars, lifeVars>>
    \/ OnHeartbeat(TheConn, "end_write") /\ UNCHANGED <<orchVars, sttVars, lifeVars>>
    \/ OnSessionEnd(TheConn, "read") /\ UNCHANGED <<orchVars, sttVars, lifeVars>>
    \/ OnSessionEnd(TheConn, "write") /\ UNCHANGED <<orchVars, sttVars, lifeVars>>
    \/ InterviewStart /\ UNCHANGED rest
    \/ \E size \in AudioSizes, r \in SttResults :
          OnAudioChunk(size, r) /\ UNCHANGED rest

\* One connection's session messages together with its interview:start
\* and audio:chunk messages, in any order: the two sets of handlers are
\* registered on the same socket and share no variable.
SessSpec == Init /\ [][SessNext]_vars

\* ------------------------------------------------------------------------
\* Properties of the Session Budget Manager
\* ------------------------------------------------------------------------
\* The step is the commit of a Start transaction.
StartCommits == sessNo' = sessNo + 1

\* The step is caller p's End update reaching the store (a client End or
\* the End forced by a heartbeat).
EndWrites(p) == pc[p] \in {"end_write", "hb_end_write"} /\ pc'[p] = "idle"

\* C1: in every reachable state of the user document, under any
\* interleaving of Start, Heartbeat and End, activeSessionId is null if and
\* only if currentSessionStartTime is null.
C1_ExclusiveLock ==
    (user.activeSessionId = NoSession) <=> (user.currentSessionStartTime = NULL)

\* C1 witness: an End has charged and cleared a session, a later Start
\* has locked a new one, and a caller is still between the read and the
\* update of an End that read an earlier session.
C1_Witness ==
    \E q \in Procs :
        /\ pc[q] = "end_write"
        /\ loc[q].sess < sessNo
        /\ closedSum > 0
        /\ user.activeSessionId # NoSession
        /\ user.currentSessionStartTime # NULL

\* C2: under any interleaving of concurrent Start, Heartbeat and End calls
\* the elapsed time of one session is added to dailyTimeUsedSec at most
\* once.
C2_ChargedAtMostOnce == ~chargedTwice

\* C3: for calls made one after the other within one calendar day,
\* dailyTimeUsedSec is the sum of the durations charged by End plus what
\* was charged for superseded sessions (at least nothing, at most their
\* elapsed seconds), and is never negative.
C3_BudgetIsSumOfSessions ==
    Today(now) = Today(StartClock) =>
        /\ user.dailyTimeUsedSec >= 0
        /\ user.dailyTimeUsedSec >= closedSum
        /\ user.dailyTimeUsedSec <= closedSum + supersededSum

\* C4: while lastResetDate is unchanged no Start, Heartbeat or End step
\* decreases dailyTimeUsedSec.
C4_NeverDecreases ==
    [][user'.lastResetDate = user.lastResetDate
         => user'.dailyTimeUsedSec >= user.dailyTimeUsedSec]_vars

\* The most that the operation writing the document at this step can
\* charge: the age, in seconds rounded up, of the session stored.
MaxChargeNow ==
    IF user.currentSessionStartTime = NULL
    THEN 0
    ELSE (now - user.currentSessionStartTime + 999) \div 1000

\* C5: every Start, Heartbeat or End that writes the document when
\* lastResetDate is not the current date sets lastResetDate to today and
\* leaves in dailyTimeUsedSec only what that operation itself charged, the
\* previous day's total being reset to 0 first.
C5_ResetBeforeAccounting ==
    [][(user' # user /\ user.lastResetDate # Today(now))
         => /\ user'.lastResetDate = Today(now)
            /\ user'.dailyTimeUsedSec <= MaxChargeNow]_vars

\* C6: End called when the user has no active session returns without
\* error and leaves every field of the user document unchanged, each
\* time it is called: no caller's End goes on to its update, and the step
\* in which an End returns as a no-op changes nothing in the document.
C6_EndWithoutSessionIsNoOp ==
    [][/\ \A p \in Procs :
            (user.activeSessionId = NoSession /\ pc[p] = "idle")
                => pc'[p] # "end_write"
       /\ (event' = "end_noop" /\ event # "end_noop")
            => (user' = user /\ user.activeSessionId = NoSession)]_vars

\* C6 witness: an End has returned as a no-op on a document that has
\* been through a charged session.
C6_Witness ==
    /\ event = "end_noop"
    /\ user.activeSessionId = NoSession
    /\ user.dailyTimeUsedSec > 0

\* C7: the update of an End that found an active session adds to
\* dailyTimeUsedSec exactly the seconds, rounded up, between the start
\* time read from the store and the server clock read by End, clears
\* activeSessionId and currentSessionStartTime, and changes nothing else.
C7_EndChargesCeilOfElapsed ==
    [][\A p \in Procs :
          EndWrites(p) =>
            LET ms == loc[p].now - loc[p].start
                d  == user'.dailyTimeUsedSec - user.dailyTimeUsedSec
            IN  /\ d * 1000 >= ms
                /\ (d - 1) * 1000 < ms
                /\ user'.activeSessionId = NoSession
                /\ user'.currentSessionStartTime = NULL
                /\ user'.dailyTimeLimitSec = user.dailyTimeLimitSec
                /\ user'.lastResetDate = user.lastResetDate
                /\ user'.lastHeartbeatAt = user.lastHeartbeatAt]_vars

\* C7 witness: an End has closed a session whose duration was not a whole
\* number of seconds.
C7_Witness ==
    /\ event = "ended"
    /\ user.activeSessionId = NoSession
    /\ closedSum > 0
    /\ (now - StartClock) % 1000 # 0

\* C8: a Start that finds a session active adds the whole seconds elapsed
\* since that session's currentSessionStartTime to dailyTimeUsedSec (taken
\* as 0 on a new day), capped at the daily limit, in the very step that
\* installs the new session.
C8_StartChargesSuperseded ==
    [][(StartCommits /\ user.activeSessionId # NoSession) =>
          LET base == IF user.lastResetDate = Today(now)
                      THEN user.dailyTimeUsedSec ELSE 0
              el   == (now - user.currentSessionStartTime) \div 1000
          IN  /\ user'.dailyTimeUsedSec =
                    (IF base + el <= user.dailyTimeLimitSec
                     THEN base + el ELSE user.dailyTimeLimitSec)
              /\ user'.activeSessionId # NoSession
              /\ user'.currentSessionStartTime = now]_vars

\* C8 witness: a Start has superseded a session that had run for at least
\* a second, and the new session is active.
C8_Witness ==
    /\ supersededSum > 0
    /\ user.dailyTimeUsedSec > closedSum
    /\ user.activeSessionId # NoSession
    /\ user.currentSessionStartTime = now

\* C9: a Start that supersedes an active session returns (and stores) an
\* id different from that session's id.
C9_FreshSessionIds ==
    [][(StartCommits /\ user.activeSessionId # NoSession)
         => user'.activeSessionId # user.activeSessionId]_vars

\* C10: a Start creates a session only when, after the lazy reset and the
\* reconciliation, dailyTimeUsedSec is below dailyTimeLimitSec.
C10_NoStartWhenExhausted ==
    [][StartCommits
         => user'.dailyTimeUsedSec < user'.dailyTimeLimitSec]_vars

\* Heartbeat steps of caller p, read off the caller's position: the read
\* of updateHeartbeat, its plain update, and the return of its forced End.
HbReads(p) == pc[p] = "idle" /\ pc'[p] \in {"hb_write", "hb_end_read"}

HbUpdates(p) == pc[p] = "hb_write" /\ pc'[p] = "idle"

HbForcedEndWrites(p) == pc[p] = "hb_end_write" /\ pc'[p] = "idle"

\* C11: for calls made one after the other, a Heartbeat that finds an
\* active session older than 3600 seconds goes on to End instead of
\* writing the heartbeat: that End charges the session's time (more than
\* 3600 seconds), clears activeSessionId and currentSessionStartTime, and
\* the call ends by throwing; a Heartbeat that finds a session of at most
\* 3600 seconds changes nothing but lastHeartbeatAt, which becomes the
\* time the call read the clock, and returns normally.
C11_HeartbeatHardCeiling ==
    [][\A p \in Procs :
         /\ HbReads(p) =>
               /\ user.activeSessionId # NoSession
               /\ (pc'[p] = "hb_end_read")
                    <=> (now - user.currentSessionStartTime > 3600000)
         /\ HbForcedEndWrites(p) =>
               /\ (user'.dailyTimeUsedSec - user.dailyTimeUsedSec) * 1000
                    > 3600000
               /\ user'.activeSessionId = NoSession
               /\ user'.currentSessionStartTime = NULL
               /\ event' = "hb_killed"
         /\ HbUpdates(p) =>
               /\ user' = [user EXCEPT !.lastHeartbeatAt = loc[p].now]
               /\ loc[p].now - user.currentSessionStartTime <= 3600000
               /\ event' = "hb_ok"]_vars

\* C11 witness: a Heartbeat has thrown after its forced End charged more
\* than an hour and cleared the lock.
C11_Witness ==
    /\ event = "hb_killed"
    /\ user.activeSessionId = NoSession
    /\ user.currentSessionStartTime = NULL
    /\ closedSum > 3600
    /\ user.dailyTimeUsedSec > 3600

\* ------------------------------------------------------------------------
\* Properties of the socket session handlers
\* ------------------------------------------------------------------------
\* The step handles a session:start message of connection c.
HandlesStart(c) == wire'.conn = c /\ wire'.recv = "session:start"

\* The step is the throw of connection c's updateHeartbeat after its
\* forced End.
HeartbeatKilled(c) ==
    pc[c] \in {"hb_end_read", "hb_end_write"} /\ pc'[c] = "idle"

\* C12: when the session:heartbeat of a connection ends in the hard-limit
\* error, the server sends that client an event or acknowledgement.
C12_HardLimitReachesClient ==
    [][\A c \in Procs :
         HeartbeatKilled(c) => (wire'.conn = c /\ wire'.sent # "none")]_vars

\* C13: a session:start of a connection that arrives less than 5000 ms
\* after the connection's previous accepted session:start is answered
\* with success:false, calls no Start and leaves the user document and the
\* time of the last accepted request as they were; any other session:start
\* is accepted and calls Start; every Start commit comes from an accepted
\* request, so two Start calls of one connection are at least 5000 ms
\* apart.
C13_StartCooldown ==
    [][/\ \A c \in Procs :
            HandlesStart(c) =>
              LET tooSoon == /\ lastStartCall[c] # NULL
                             /\ now - lastStartCall[c] < 5000
              IN /\ tooSoon =>
                       /\ wire'.sent = "success:false"
                       /\ sessNo' = sessNo
                       /\ user' = user
                       /\ lastStartCall'[c] = lastStartCall[c]
                 /\ ~tooSoon =>
                       /\ wire'.sent = "success:true"
                       /\ sessNo' = sessNo + 1
                       /\ user'.currentSessionStartTime = now
                       /\ lastStartCall'[c] = now
       /\ StartCommits =>
            \E c \in Procs :
               /\ HandlesStart(c)
               /\ lastStartCall[c] # NULL => now - lastStartCall[c] >= 5000]_vars

\* C13 witness: a connection's session:start has been rejected 2500 ms
\* after its previous one was accepted.
C13_Witness ==
    \E c \in Procs :
       /\ wire = Message(c, "session:start", "success:false")
       /\ lastStartCall[c] = now - 2500
       /\ user.activeSessionId # NoSession

\* ------------------------------------------------------------------------
\* Properties of the interview handler
\* ------------------------------------------------------------------------
\* The step handles a session:violation message.
Violates == violationCount' = violationCount + 1

\* The step is the transcript timer's callback starting a turn.
TimerCompletesTurn ==
    /\ transcriptTimer # NoTimer
    /\ transcriptTimer' = NoTimer
    /\ turnNo' = turnNo + 1

\* The step is the return of the call of handleUserTurnComplete in slot i.
TurnFinishes(i) == turns[i].pc # "free" /\ turns'[i].pc = "free"

\* The step hands a text to TTS or requests an LLM stream.
StartsProviderCall ==
    \/ turnNo' # turnNo
    \/ greeting' = "pending" /\ greeting # "pending"
    \/ \E i \in TurnSlots :
          /\ turns'[i].pc \in {"tts", "tts_last"}
          /\ turns[i].pc \notin {"tts", "tts_last"}

\* The audio:chunk events among the events of a step.
AudioChunksOf(emits) == SelectSeq(emits, LAMBDA e : e.ev = "audio:chunk")

\* The sentences of a text: it is cut after every run of punctuation that
\* whitespace or the end of the text follows, and each piece is trimmed.
RECURSIVE Sentences(_)
Sentences(s) ==
    IF Trim(s) = <<>> THEN <<>>
    ELSE IF MatchEnd(s) = 0 THEN << Trim(s) >>
    ELSE << Trim(SubSeq(s, 1, MatchEnd(s))) >>
           \o Sentences(SubSeq(s, MatchEnd(s) + 1, Len(s)))

\* C14: the first session:violation of a connection emits exactly one
\* event, a session:warning (so no session:end), and leaves the turn
\* state, the running turns, the transcript buffer and its timer as they
\* were.
C14_FirstViolationWarns ==
    [][(Violates /\ violationCount = 0) =>
          /\ Len(act'.emits) = 1
          /\ act'.emits[1].ev = "session:warning"
          /\ state' = state
          /\ turns' = turns
          /\ transcriptBuffer' = transcriptBuffer
          /\ transcriptTimer' = transcriptTimer]_vars

\* C14 witness: the first violation has arrived while the handler was
\* SPEAKING, and it still is.
C14_Witness ==
    /\ violationCount = 1
    /\ state = "SPEAKING"
    /\ Len(act.emits) = 1
    /\ act.emits[1].ev = "session:warning"

\* C15: once the second session:violation has been handled and has put
\* the turn state to IDLE, every step other than a new interview:start
\* leaves the turn state IDLE, hands no audio chunk to STT, and starts no
\* turn, no LLM request and no TTS call.
C15_TerminationIsPermanent ==
    [][(violationCount >= 2 /\ state = "IDLE" /\ stream' = stream) =>
          /\ state' = "IDLE"
          /\ ~act'.stt
          /\ ~StartsProviderCall]_vars

\* C16: a turn whose LLM request failed has emitted an error event by the
\* time it returns, and returns with the interview:status LISTENING event
\* and the turn state LISTENING.
C16_LLMFailureReported ==
    [][\A i \in TurnSlots :
         (TurnFinishes(i) /\ turns[i].llmFailed) =>
            /\ turns[i].errorSent
            /\ act'.emits # <<>>
            /\ act'.emits[Len(act'.emits)] = Status("LISTENING")
            /\ state' = "LISTENING"]_vars

\* C17: when a turn returns whose LLM stream did not fail and whose TTS
\* calls all succeeded, the audio:chunk events it has emitted are, in
\* order, one per sentence of the full response, each with the sentence's
\* text and the audio synthesized from that text.
C17_OneChunkPerSentence ==
    [][\A i \in TurnSlots :
         LET last == AudioChunksOf(act'.emits)
             spoken == turns[i].spoken \o last
             sentences == Sentences(turns[i].fullAiResponse)
         IN ( /\ TurnFinishes(i)
              /\ ~turns[i].llmFailed
              /\ ~turns[i].ttsFailed
              /\ turns[i].pc = "tts_last" => last # <<>> ) =>
               /\ Len(spoken) = Len(sentences)
               /\ \A k \in 1..Len(spoken) :
                     /\ spoken[k].text = sentences[k]
                     /\ spoken[k].audio = <<"mp3">> \o sentences[k]]_vars

\* C18: the transcript timer hands a turn over only when no transcript,
\* interim or final, has arrived from the STT engine in LISTENING since
\* the timer was set (a transcript arriving at the very instant the timer
\* is due is not counted).
C18_NoTurnWhileFragmentsArrive ==
    [][TimerCompletesTurn => sinceFragment >= transcriptTimer.wait]_vars

\* C19: an audio chunk of more than 100000 bytes received in LISTENING
\* causes no call of STT and no event, and leaves the whole handler state
\* as it was; one of at most 100000 bytes received in LISTENING is handed
\* to STT.
C19_OversizeChunkDropped ==
    [][(act'.audio # NULL /\ state = "LISTENING") =>
          IF act'.audio > 100000
          THEN /\ ~act'.stt
               /\ act'.emits = <<>>
               /\ state' = "LISTENING"
               /\ <<conversationHistory, violationCount, stream,
                     transcriptBuffer, transcriptTimer, greeting, turns,
                     turnNo>>' =
                  <<conversationHistory, violationCount, stream,
                    transcriptBuffer, transcriptTimer, greeting, turns,
                    turnNo>>
          ELSE act'.stt]_vars

\* C19 witness: an oversize chunk has been dropped in LISTENING.
C19_Witness ==
    /\ act.audio = 100001
    /\ ~act.stt
    /\ act.emits = <<>>
    /\ state = "LISTENING"

\* C20: whenever the handler is THINKING or SPEAKING and fewer than two
\* violations have been handled, it is LISTENING again later, whether the
\* LLM request and the TTS calls of the turn succeed or fail.
C20_ReturnsToListening ==
    (state \in {"THINKING", "SPEAKING"} /\ violationCount < 2)
       ~> (state = "LISTENING")

\* C20 witness: a turn has returned to LISTENING with its status event
\* alone, its last TTS call having failed.
C20_Witness ==
    /\ state = "LISTENING"
    /\ turnNo >= 1
    /\ \A i \in TurnSlots : turns[i].pc = "free"
    /\ act.emits = << Status("LISTENING") >>
    /\ violationCount < 2

\* The step is one of the call of handleUserTurnComplete in slot i, which
\* was running before it.
TurnSteps(i) == turns[i].pc # "free" /\ turns'[i] # turns[i]

\* The events of a step that tell the client of audio or of a turn state
\* SPEAKING or LISTENING.
TurnOutput(emits) ==
    SelectSeq(emits, LAMBDA e :
       \/ e.ev = "audio:chunk"
       \/ e.ev = "interview:status" /\ e.state \in {"SPEAKING", "LISTENING"})

\* C21: once the second session:violation has put the turn state to IDLE,
\* a step of a turn that was in flight emits no audio:chunk event and no
\* interview:status event with state SPEAKING or LISTENING, and leaves the
\* turn state IDLE.
C21_InFlightResultDiscarded ==
    [][\A i \in TurnSlots :
         (violationCount >= 2 /\ state = "IDLE" /\ TurnSteps(i)) =>
            /\ TurnOutput(act'.emits) = <<>>
            /\ state' = "IDLE"]_vars

\* C22: the step that handles the second (or a later) session:violation
\* while the user holds a session starts the Budget Manager's End for the
\* user: a caller leaves its idle position, or the lock is already
\* released when the step is over.
C22_TerminationEndsSession ==
    [][(Violates /\ violationCount' >= 2 /\ HasSession(user)) =>
          \/ \E c \in Procs : pc[c] = "idle" /\ pc'[c] # "idle"
          \/ ~HasSession(user')]_vars

\* The step starts a TTS call for the turn in slot i.
StartsTTS(i) ==
    /\ turns'[i].pc \in {"tts", "tts_last"}
    /\ turns'[i] # turns[i]

\* A text without its whitespace.
Squeeze(s) == SelectSeq(s, LAMBDA ch : ch # " ")

\* The texts of a sequence of events, one after the other.
RECURSIVE Texts(_)
Texts(events) ==
    IF events = <<>> THEN <<>>
    ELSE Head(events).text \o Texts(Tail(events))

\* C23: within one LLM response a TTS call is started only when no TTS
\* call of that response is pending; an audio:chunk event a step of the
\* turn emits is the only one of that step and carries the text of the
\* one pending TTS call; and, while no TTS call of the turn has failed,
\* the texts emitted so far, the text of the pending call and the buffer
\* not yet spoken (none once the rest of the buffer is the pending call)
\* make up the response generated so far, in that order.
C23_AudioInGenerationOrder ==
    [][\A i \in TurnSlots :
         LET t == turns[i]
             sent == AudioChunksOf(act'.emits)
         IN /\ StartsTTS(i) => t.pc = "llm" /\ t.tts = <<>>
            /\ (TurnSteps(i) /\ sent # <<>>) =>
                  /\ Len(sent) = 1
                  /\ t.pc \in {"tts", "tts_last"}
                  /\ sent[1].text = t.tts
            /\ (t.pc # "free" /\ ~t.ttsFailed) =>
                  Squeeze(Texts(t.spoken) \o t.tts
                            \o (IF t.pc = "tts_last" THEN <<>>
                                ELSE t.sentenceBuffer))
                     = Squeeze(t.fullAiResponse)]_vars

\* C23 witness: the audio of the first sentence of a response has been
\* emitted and the TTS call for the rest of the response is pending.
C23_Witness ==
    \E i \in TurnSlots :
       /\ turns[i].pc = "tts_last"
       /\ Len(turns[i].spoken) = 1
       /\ turns[i].tts # <<>>
       /\ ~turns[i].ttsFailed

\* The text a step that starts a turn hands to handleUserTurnComplete: the
\* text of its user:transcript event.
HandedText == act'.emits[2].text

\* Transcripts joined in arrival order: each trimmed, one space between.
RECURSIVE Joined(_)
Joined(fragments) ==
    IF fragments = <<>> THEN <<>>
    ELSE IF Len(fragments) = 1 THEN Trim(fragments[1])
    ELSE Joined(SubSeq(fragments, 1, Len(fragments) - 1))
            \o <<" ">> \o Trim(fragments[Len(fragments)])

\* A text cut to its first 1000 characters and '...' when it is longer.
Cut(s) == IF Len(s) <= 1000 THEN s ELSE SubSeq(s, 1, 1000) \o <<".", ".", ".">>

\* The buffer is the final transcripts accepted since it was last emptied,
\* and a step in which an interim transcript arrives leaves it alone.
BufferHoldsAccepted ==
    /\ transcriptBuffer = Joined(accepted)
    /\ act'.fragment = "interim" => transcriptBuffer' = transcriptBuffer

C25_WaitChosenPerFragment ==
    [][act'.fragment # "none" =>
          LET buffer == Trim(transcriptBuffer')
              wait == IF buffer # <<>> /\ buffer[Len(buffer)] = "."
                      THEN 1000 ELSE 2500
          IN transcriptTimer' = [left |-> wait, wait |-> wait]]_vars

\* The interview handler's own variables are left as they were.
HandlerUntouched ==
    <<state, conversationHistory, violationCount, stream, transcriptBuffer,
      transcriptTimer, greeting, turns, turnNo>>' =
    <<state, conversationHistory, violationCount, stream, transcriptBuffer,
      transcriptTimer, greeting, turns, turnNo>>

\* C26: STTService.processAudio is called only by a step taken in
\* LISTENING; an audio chunk received in IDLE, THINKING or SPEAKING causes
\* no call of it and no event, and changes nothing in the handler.
C26_AudioOnlyWhileListening ==
    [][/\ act'.stt => state = "LISTENING"
       /\ (act'.audio # NULL /\ state # "LISTENING") =>
             /\ ~act'.stt
             /\ act'.emits = <<>>
             /\ HandlerUntouched]_vars

\* C26 witness: an audio chunk of allowed size has been ignored in
\* THINKING.
C26_Witness ==
    /\ act.audio = 100000
    /\ ~act.stt
    /\ act.emits = <<>>
    /\ state = "THINKING"

\* C28: when STTService.processAudio answers SILENCE_TIMEOUT or
\* MAX_DURATION_EXCEEDED, the step emits one event, interview:status with
\* state LISTENING (so no error and no session:end), and the turn state
\* is LISTENING after it as before.
C28_SttSignalsNonFatal ==
    [][act'.signal \in {"SILENCE_TIMEOUT", "MAX_DURATION_EXCEEDED"} =>
          /\ act'.emits = << Status("LISTENING") >>
          /\ state = "LISTENING"
          /\ HandlerUntouched]_vars

\* C28 witness: the handler has answered MAX_DURATION_EXCEEDED with the
\* status event while a transcript was buffered, and is LISTENING.
C28_Witness ==
    /\ act.signal = "MAX_DURATION_EXCEEDED"
    /\ act.emits = << Status("LISTENING") >>
    /\ state = "LISTENING"
    /\ transcriptBuffer # <<>>

\* C29: when STTService.processAudio answers MAX_DURATION_EXCEEDED while
\* text is buffered, the step hands the buffer to handleUserTurnComplete.
C29_MaxDurationStartsTurn ==
    [][(act'.signal = "MAX_DURATION_EXCEEDED" /\ Trim(transcriptBuffer) # <<>>) =>
          /\ turnNo' = turnNo + 1
          /\ state' = "THINKING"]_vars

\* C27: the text a step hands to handleUserTurnComplete, whether the step
\* is the transcript timer's or that of an audio:end message, is the
\* original text (the buffer, the client's transcript) when that has at
\* most 1000 characters and otherwise its first 1000 characters and
\* '...'; it is never longer than 1003 characters.
C27_UserTextCut ==
    [][turnNo' = turnNo + 1 =>
          LET original == IF act'.transcript # <<>> THEN act'.transcript[1]
                          ELSE transcriptBuffer
          IN /\ HandedText = Cut(original)
             /\ Len(HandedText) <= 1003]_vars

\* C27 witness: the transcript timer has handed over a buffer of 1001
\* characters as 1003 characters.
C27_Witness ==
    /\ Len(act.emits) = 2
    /\ act.emits[2].ev = "user:transcript"
    /\ Len(act.emits[2].text) = 1003
    /\ act.emits[2].text[1001] = "."
    /\ act.transcript = <<>>
    /\ state = "THINKING"

\* C30: processAudio returns MAX_DURATION_EXCEEDED only when the user has
\* spoken without a pause for more than 60 seconds: there is a run of
\* voice activity in which no pause, the one up to now included, is
\* longer than the silence timeout (the longest pause the service does
\* not call silence), and the run began more than 60000 ms ago.
C30_MaxDurationNeedsContinuousSpeech ==
    sttOut.result = "MAX_DURATION_EXCEEDED" =>
       /\ speechRun # NoRun
       /\ sttNow - speechRun.last <= SILENCE_TIMEOUT_MS
       /\ sttNow - speechRun.start > 60000

\* ------------------------------------------------------------------------
\* Properties of the lock, the streams and the life of a connection
\* ------------------------------------------------------------------------
\* C36: an End (a client End or the End forced by a heartbeat) whose read
\* of the user document came before a Start committed does not clear the
\* lock of that Start: its update leaves activeSessionId and
\* currentSessionStartTime as the Start wrote them.
C36_EndReleasesOnlyItsSession ==
    [][\A p \in Procs :
          (EndWrites(p) /\ loc[p].sess < sessNo) =>
             /\ user'.activeSessionId = user.activeSessionId
             /\ user'.currentSessionStartTime = user.currentSessionStartTime]_vars

\* C33: the message list of a turn's LLM request is the system prompt,
\* then the history as it was before the turn, then the new user text:
\* the new text is in the list once, as its last message.
C33_UserTextOnceAndLast ==
    [][turnNo' = turnNo + 1 =>
          act'.request = <<"system">> \o conversationHistory \o <<"user">>]_vars

\* C38: a turn emits an audio:chunk event of its response only after the
\* greeting's TTS call has settled, so the greeting's audio:chunk is never
\* preceded by one of the first response.
C38_GreetingAudioFirst ==
    [][(\E i \in TurnSlots : TurnSteps(i) /\ AudioChunksOf(act'.emits) # <<>>)
          => greeting # "pending"]_vars

\* C32: the interview:start handler returns with the state LISTENING and
\* the STT stream open while the greeting's TTS call is still pending; and
\* as long as that call is pending, an audio:chunk within the size limit
\* that arrives before any turn has started or the interview was
\* terminated is handed to STTService.processAudio.
C32_ListensWhileGreetingRenders ==
    [][/\ (greeting = "none" /\ greeting' = "pending") =>
             /\ state' = "LISTENING"
             /\ stream'
       /\ (/\ act'.audio # NULL
           /\ greeting = "pending"
           /\ turnNo = 0
           /\ violationCount < 2
           /\ ~TooLarge(act'.audio)) => act'.stt]_vars

\* C32 witness: an audio chunk has been forwarded to STT while the
\* greeting's audio has not been emitted yet.
C32_Witness ==
    /\ greeting = "pending"
    /\ act.audio # NULL
    /\ act.stt
    /\ state = "LISTENING"

\* The step is one of the interview handler (it leaves the session
\* handlers and the Budget Manager alone).
InterviewStep == UNCHANGED rest

\* C34: the interview runs only inside a granted session: the turn state
\* leaves IDLE, and an audio chunk is handed to STT, only while the user
\* document holds an active session.
C34_InterviewNeedsSession ==
    [][/\ (state = "IDLE" /\ state' # "IDLE") => HasSession(user)
       /\ (InterviewStep /\ act'.stt) => HasSession(user)]_vars

\* C35: when a session is ended (by session:end or by a heartbeat's forced
\* End) the turn state becomes IDLE, and while the session started last
\* is ended no audio chunk is handed to STT and no LLM or TTS call is
\* started (a new interview:start, which C34 is about, left aside).
C35_SessionEndStopsInterview ==
    [][/\ (HasSession(user) /\ ~HasSession(user')) => state' = "IDLE"
       /\ (/\ InterviewStep
           /\ greeting' = greeting
           /\ sessNo > 0
           /\ ~HasSession(user)) =>
             /\ ~act'.stt
             /\ ~StartsProviderCall]_vars

\* The calls of handleUserTurnComplete that are running.
InFlight == { i \in TurnSlots : turns[i].pc # "free" }

\* C37: at most one call of handleUserTurnComplete is in flight on the
\* connection at any time.
C37_OneTurnAtATime == Cardinality(InFlight) <= 1

\* C40: once the connection's disconnect has been handled no turn
\* begins on it: a transcript timer that was pending at the disconnect
\* does not call handleUserTurnComplete and no LLM request is made.
C40_NoTurnAfterDisconnect ==
    [][~online[TheConn] => turnNo' = turnNo]_vars

\* The step is socket c's disconnect.
Disconnects(c) == online[c] /\ ~online'[c]

\* The step is socket c's interview:start reaching startStream.
StartsStream(c) == Len(dg') = Len(dg) + 1 /\ dg'[Len(dg')].owner = c

\* C31: at most one connection to the STT provider is open for the user
\* at any time, and a connection that is open belongs to a socket that
\* has not disconnected.
C31_OneOpenStream ==
    /\ Cardinality(OpenConnections) <= 1
    /\ \A k \in OpenConnections : online[dg[k].owner]

\* C39: with two sockets of one user, the disconnect of one socket leaves
\* an open connection of the other socket open and in the map, and the
\* interview:start of one socket leaves the map entry of the other, still
\* connected, socket in place.
C39_SocketsKeepTheirStreams ==
    [][\A c \in Procs :
          /\ Disconnects(c) =>
                \A k \in OpenConnections :
                   dg[k].owner # c =>
                      /\ dg'[k].status = "open"
                      /\ streams = k => streams' = k
          /\ (/\ StartsStream(c)
              /\ streams # 0
              /\ dg[streams].owner # c
              /\ dg[streams].status = "open"
              /\ online[dg[streams].owner]) => streams' = streams]_vars
====
